---- MODULE Spec2Model ----
(***************************************************************************)
(* aeroForge: the generate / evaluate / decide loop.                       *)
(*                                                                         *)
(* One mission is driven through designer_node, simulator_node and         *)
(* supervisor_node by one of the two controllers of the repository:        *)
(* run_workflow_async (server.py) or run_workflow_graph (app.py).          *)
(*                                                                         *)
(* Texts the code inspects (error strings, collaborator answers, mission   *)
(* prompts) are sequences of one-character strings, so that lower(),       *)
(* strip() and the "in" substring test are computed, not assumed.          *)
(* Metric values are integers in hundredths (0.85 is 85, 10 m/s^2 is 1000).*)
(***************************************************************************)
EXTENDS Integers, Sequences, FiniteSets, TLC

VARIABLES
    env,        \* process environment: OPENROUTER_API_KEY set, DEMO_MODE
    ctl,        \* which controller drives the mission: "server" or "app"
    max_iterations, \* the loop bound of the controller
    state,      \* the WorkflowState (AeroForgeState) of the mission
    mission,    \* the MissionManager record of the mission (server only)
    pc,         \* position of the controller
    i,          \* loop variable of the controller
    decision,   \* what the last supervisor_node call returned
    evalOutcome,\* how the last simulator_node call ended
    designCalls,\* designer_node calls made on this WorkflowState
    runCalls,   \* designer_node calls made in the current run of the loop
    launches,   \* runs started so far (Streamlit keeps the state between runs)
    held,       \* st.session_state.workflow_state holds the WorkflowState
    faults,     \* collaborator failures injected so far (bounded by MaxFaults)
    lastStage,  \* the stage called last: "none", "design", "evaluate", "decide"
    asked,      \* how the Decision Collaborator was used in the last decide
    designed,   \* how the Design Collaborator was used in the last designer_node
    produced,   \* designer_node calls on this WorkflowState that stored an artifact
    evalReached,\* the step the last simulator_node call got to
    drawn,      \* what the last simulator_node call met: its collaborators' outcomes
    files,      \* the files under output/ that concurrent missions share
    threads,    \* the concurrent missions' threads, each inside simulator_node
    scheduler,  \* the AeroGrid Scheduler: its task_queue and its results
    workers,    \* the Worker threads of the AeroGrid scheduler
    handed      \* the queue entries get_task has returned, with multiplicity

\* the variables of one mission driven by one controller
seq_vars == <<env, ctl, max_iterations, state, mission, pc, i, decision,
              evalOutcome, designCalls, runCalls, launches, held, faults,
              lastStage, asked, designed, produced, evalReached, drawn>>

\* the variables of the concurrent parts
par_vars == <<files, threads, scheduler, workers, handed>>

vars == <<env, ctl, max_iterations, state, mission, pc, i, decision,
          evalOutcome, designCalls, runCalls, launches, held, faults,
          lastStage, asked, designed, produced, evalReached, drawn,
          files, threads, scheduler, workers, handed>>

\* no concurrent mission and no scheduler is running
ParIdle ==
    /\ files = <<>>
    /\ threads = <<>>
    /\ scheduler = <<>>
    /\ workers = <<>>
    /\ handed = <<>>

----------------------------------------------------------------------------
(* Bounds of the model *)

\* largest max-iteration override a mission request is given
MaxOverride == 5

\* runs of the Streamlit controller on one session
MaxLaunches == 2

\* collaborator failures injected into one behaviour
MaxFaults == 1

----------------------------------------------------------------------------
(* Program constants *)

MAX_ITERATIONS == 4

MIN_ITERATIONS == 2

APP_MAX_ITERATIONS == 10

----------------------------------------------------------------------------
(* Texts *)

UpperChars ==
    <<"A","B","C","D","E","F","G","H","I","J","K","L","M","N","O","P","Q","R","S","T","U","V","W","X","Y","Z">>

LowerChars ==
    <<"a","b","c","d","e","f","g","h","i","j","k","l","m","n","o","p","q","r","s","t","u","v","w","x","y","z">>

\* str.lower() on one character
LowerChar(c) ==
    IF \E k \in 1..Len(UpperChars) : UpperChars[k] = c
    THEN LowerChars[CHOOSE k \in 1..Len(UpperChars) : UpperChars[k] = c]
    ELSE c

\* str.lower()
Lower(t) == [k \in 1..Len(t) |-> LowerChar(t[k])]

\* Python's  sub in t
Contains(t, sub) ==
    \E k \in 0..(Len(t) - Len(sub)) : SubSeq(t, k + 1, k + Len(sub)) = sub

IsSpace(c) == c \in {" ", "\n", "\t"}

\* str.strip()
Strip(t) ==
    LET keep == {k \in 1..Len(t) : ~IsSpace(t[k])}
        lo == CHOOSE k \in keep : \A m \in keep : k <= m
        hi == CHOOSE k \in keep : \A m \in keep : m <= k
    IN IF keep = {} THEN <<>> ELSE SubSeq(t, lo, hi)

FATAL_TAG ==
    <<"f","a","t","a","l">>

ERR_NO_KEY ==
    <<"O","P","E","N","R","O","U","T","E","R","_","A","P","I","_","K","E","Y"," ","n","o","t"," ","f","o","u","n","d">>

ERR_INIT_PREFIX ==
    <<"F","a","i","l","e","d"," ","t","o"," ","i","n","i","t","i","a","l","i","z","e"," ","O","p","e","n","R","o","u","t","e","r",":"," ">>

ERR_SYNTAX_PREFIX ==
    <<"S","y","n","t","a","x"," ","e","r","r","o","r",":"," ">>

ERR_DESIGNER_PREFIX ==
    <<"D","e","s","i","g","n","e","r"," ","a","g","e","n","t"," ","f","a","i","l","e","d",":"," ">>

ERR_NO_CAD ==
    <<"N","o"," ","C","A","D"," ","c","o","d","e"," ","a","v","a","i","l","a","b","l","e"," ","f","o","r"," ","s","i","m","u","l","a","t","i","o","n">>

ERR_EXEC ==
    <<"F","a","i","l","e","d"," ","t","o"," ","e","x","e","c","u","t","e"," ","C","A","D"," ","c","o","d","e">>

ERR_EXPORT ==
    <<"F","a","i","l","e","d"," ","t","o"," ","e","x","p","o","r","t"," ","S","T","L"," ","f","i","l","e","s">>

ERR_WORKFLOW_PREFIX ==
    <<"W","o","r","k","f","l","o","w"," ","f","a","i","l","e","d",":"," ">>

\* messages carried by the exceptions the collaborators throw
MSG_TIMEOUT ==
    <<"t","i","m","e","o","u","t">>

MSG_FATAL ==
    <<"F","a","t","a","l",":"," ","q","u","o","t","a">>

MSG_SYNTAX ==
    <<"i","n","v","a","l","i","d"," ","s","y","n","t","a","x">>

\* a parser message that quotes a name of the artifact
MSG_SYNTAX_NAME ==
    <<"n","a","m","e"," ","'","f","a","t","a","l","'"," ","i","s"," ","p","a","r","a","m","e","t","e","r"," ","a","n","d"," ","g","l","o","b","a","l">>

MSG_DISK ==
    <<"N","o"," ","s","p","a","c","e"," ","l","e","f","t">>

ExcMsgs == {MSG_TIMEOUT, MSG_FATAL}

\* answers of the Decision Collaborator
TXT_ITERATE ==
    <<"i","t","e","r","a","t","e">>

TXT_FINISH ==
    <<"f","i","n","i","s","h">>

TXT_FINISH_RAW ==
    <<" ","F","i","n","i","s","h","\n">>

TXT_OTHER ==
    <<"f","i","n","i","s","h",".">>

\* mission prompts
PROMPT_CARGO ==
    <<"D","e","s","i","g","n"," ","a"," ","h","e","a","v","y","-","l","i","f","t"," ","c","a","r","g","o"," ","d","r","o","n","e"," ","c","a","r","r","y","i","n","g"," ","2","0","k","g">>

PROMPT_RACING ==
    <<"R","a","c","i","n","g"," ","d","r","o","n","e">>

PROMPT_SURVEY ==
    <<"s","u","r","v","e","y"," ","d","r","o","n","e">>

Prompts == {PROMPT_CARGO, PROMPT_RACING, PROMPT_SURVEY}

\* prompts with one cue word only, for the synthesizers on their own
PROMPT_SPEED ==
    <<"H","i","g","h","-","s","p","e","e","d"," ","d","r","o","n","e">>

PROMPT_FREIGHT ==
    <<"c","a","r","g","o"," ","d","r","o","n","e">>

SynthPrompts == Prompts \cup {PROMPT_SPEED, PROMPT_FREIGHT}

----------------------------------------------------------------------------
(* WorkflowState *)

NoMetrics == [k \in {} |-> 0]

NoFeedback == [kind |-> "empty", iter |-> 0, sel |-> <<>>]

\* create_initial_state(prompt): iteration 0, status initialized, nothing else set
create_initial_state(prompt) ==
    [ mission_prompt     |-> prompt,
      status             |-> "initialized",
      iteration          |-> 0,
      cad_code           |-> "",
      design_history     |-> <<>>,
      simulation_results |-> "none",
      simulation_metrics |-> NoMetrics,
      designer_feedback  |-> NoFeedback,
      errors             |-> <<>>,
      urdf_path          |-> "" ]

\* state["errors"].append(e)
AppendError(s, e) == [s EXCEPT !.errors = Append(@, e)]

----------------------------------------------------------------------------
(* DesignStage: agents/designer.py *)

\* what the Design Collaborator can answer with, after the fence clean-up
Codes == {"GoodCode", "NoPartCode", "BadSyntax", "ExitCode", ""}

\* compile(generated_code, '<string>', 'exec') succeeds
Compiles(code) == code # "BadSyntax"

\* the ways one Design Collaborator use can go
DesignOutcomes ==
    [kind : {"init_fail", "invoke_fail"}, msg : ExcMsgs, code : {""}]
    \cup [kind : {"code"}, msg : {MSG_SYNTAX}, code : Codes]
    \cup [kind : {"code"}, msg : {MSG_SYNTAX_NAME}, code : {"BadSyntax"}]

\* llm.invoke(messages) is reached: the key is set and the constructor succeeded
llm_invoked(apiKey, o) == apiKey /\ o.kind # "init_fail"

\* the call gets to  state["cad_code"] = generated_code
StoresArtifact(apiKey, o) == apiKey /\ o.kind = "code"

\* no request was built
NoRequest == [strategy |-> "none", fields |-> {}]

\* the user prompt of designer_node, built after the increment of iteration:
\* which of the two texts it is and the fields of the state written into it
user_prompt(s) ==
    IF s.iteration = 1
    THEN [strategy |-> "scratch", fields |-> {"mission_prompt"}]
    ELSE [strategy |-> "refine",
          fields |-> {"mission_prompt", "iteration", "designer_feedback"}]

NotDesigned ==
    [kind |-> "none", msg |-> <<>>, code |-> "", invoked |-> FALSE,
     request |-> NoRequest]

\* what a designer_node call on state s did with the Design Collaborator
DesignUse(s, apiKey, o) ==
    IF ~apiKey
    THEN [kind |-> "nokey", msg |-> <<>>, code |-> "", invoked |-> FALSE,
          request |-> NoRequest]
    ELSE [kind |-> o.kind, msg |-> o.msg, code |-> o.code,
          invoked |-> llm_invoked(apiKey, o),
          request |-> IF llm_invoked(apiKey, o)
                      THEN user_prompt([s EXCEPT !.iteration = @ + 1])
                      ELSE NoRequest]

designer_node_late_increment(s, apiKey, o) ==
    LET s1 == [s EXCEPT !.status = "designing"]
        s1i == [s1 EXCEPT !.iteration = @ + 1]
    IN IF ~apiKey THEN AppendError(s1, ERR_NO_KEY)
       ELSE IF o.kind = "init_fail"
            THEN AppendError(s1, ERR_INIT_PREFIX \o o.msg)
       ELSE IF o.kind = "invoke_fail"
            THEN AppendError(s1i, ERR_DESIGNER_PREFIX \o o.msg)
       ELSE LET s2 == [s1i EXCEPT !.cad_code = o.code,
                                  !.design_history = Append(@, o.code)]
            IN IF Compiles(o.code) THEN s2
               ELSE AppendError(s2, ERR_SYNTAX_PREFIX \o o.msg)

\* designer_node that records the artifact it holds again when the call fails
designer_node_history_on_failure(s, apiKey, o) ==
    LET s1 == [s EXCEPT !.status = "designing", !.iteration = @ + 1]
    IN IF ~apiKey THEN AppendError(s1, ERR_NO_KEY)
       ELSE IF o.kind = "init_fail"
            THEN AppendError(s1, ERR_INIT_PREFIX \o o.msg)
       ELSE IF o.kind = "invoke_fail"
            THEN AppendError([s1 EXCEPT !.design_history = Append(@, s1.cad_code)],
                             ERR_DESIGNER_PREFIX \o o.msg)
       ELSE LET s2 == [s1 EXCEPT !.cad_code = o.code,
                                 !.design_history = Append(@, o.code)]
            IN IF Compiles(o.code) THEN s2
               ELSE AppendError(s2, ERR_SYNTAX_PREFIX \o o.msg)

\* designer_node that drops the artifact it holds when it returns early
designer_node_clears_artifact(s, apiKey, o) ==
    LET s1 == [s EXCEPT !.status = "designing", !.iteration = @ + 1]
        s0 == [s1 EXCEPT !.cad_code = ""]
    IN IF ~apiKey THEN AppendError(s0, ERR_NO_KEY)
       ELSE IF o.kind = "init_fail"
            THEN AppendError(s0, ERR_INIT_PREFIX \o o.msg)
       ELSE IF o.kind = "invoke_fail"
            THEN AppendError(s1, ERR_DESIGNER_PREFIX \o o.msg)
       ELSE LET s2 == [s1 EXCEPT !.cad_code = o.code,
                                 !.design_history = Append(@, o.code)]
            IN IF Compiles(o.code) THEN s2
               ELSE AppendError(s2, ERR_SYNTAX_PREFIX \o o.msg)

\* designer_node that starts every call with an empty errors list
designer_node_fresh_errors(s, apiKey, o) ==
    LET s1 == [s EXCEPT !.status = "designing", !.iteration = @ + 1,
                        !.errors = <<>>]
    IN IF ~apiKey THEN AppendError(s1, ERR_NO_KEY)
       ELSE IF o.kind = "init_fail"
            THEN AppendError(s1, ERR_INIT_PREFIX \o o.msg)
       ELSE IF o.kind = "invoke_fail"
            THEN AppendError(s1, ERR_DESIGNER_PREFIX \o o.msg)
       ELSE LET s2 == [s1 EXCEPT !.cad_code = o.code,
                                 !.design_history = Append(@, o.code)]
            IN IF Compiles(o.code) THEN s2
               ELSE AppendError(s2, ERR_SYNTAX_PREFIX \o o.msg)

\* designer_node that keeps an artifact only when it passes compile()
designer_node_blocking_validation(s, apiKey, o) ==
    LET s1 == [s EXCEPT !.status = "designing", !.iteration = @ + 1]
    IN IF ~apiKey THEN AppendError(s1, ERR_NO_KEY)
       ELSE IF o.kind = "init_fail"
            THEN AppendError(s1, ERR_INIT_PREFIX \o o.msg)
       ELSE IF o.kind = "invoke_fail"
            THEN AppendError(s1, ERR_DESIGNER_PREFIX \o o.msg)
       ELSE LET s2 == [s1 EXCEPT !.cad_code = o.code,
                                 !.design_history = Append(@, o.code)]
            IN IF Compiles(o.code) THEN s2
               ELSE AppendError(s1, ERR_SYNTAX_PREFIX \o o.msg)

designer_node(s, apiKey, o) ==
    LET s1 == [s EXCEPT !.status = "designing", !.iteration = @ + 1]
    IN IF ~apiKey THEN AppendError(s1, ERR_NO_KEY)
       ELSE IF o.kind = "init_fail"
            THEN AppendError(s1, ERR_INIT_PREFIX \o o.msg)
       ELSE IF o.kind = "invoke_fail"
            THEN AppendError(s1, ERR_DESIGNER_PREFIX \o o.msg)
       ELSE LET s2 == [s1 EXCEPT !.cad_code = o.code,
                                 !.design_history = Append(@, o.code)]
            IN IF Compiles(o.code) THEN s2
               ELSE AppendError(s2, ERR_SYNTAX_PREFIX \o o.msg)

----------------------------------------------------------------------------
(* EvaluationStage: agents/simulator.py *)

HasWord(prompt, w) == Contains(Lower(prompt), w)

W_RACING == <<"r","a","c","i","n","g">>

W_SPEED == <<"s","p","e","e","d">>

W_FAST == <<"f","a","s","t">>

W_HEAVY == <<"h","e","a","v","y">>

W_CARGO == <<"c","a","r","g","o">>

W_LIFT == <<"l","i","f","t">>

\* the keyword tests of create_smart_mock_part, generate_smart_metrics and
\* generate_smart_feedback, computed once for every mission prompt
MockIsRacing ==
    [p \in Prompts |-> HasWord(p, W_RACING) \/ HasWord(p, W_SPEED) \/ HasWord(p, W_FAST)]

MockIsHeavy ==
    [p \in Prompts |-> HasWord(p, W_HEAVY) \/ HasWord(p, W_CARGO) \/ HasWord(p, W_LIFT)]

MetricsIsRacing ==
    [p \in SynthPrompts |-> HasWord(p, W_RACING) \/ HasWord(p, W_SPEED)]

MetricsIsHeavy ==
    [p \in SynthPrompts |-> HasWord(p, W_HEAVY) \/ HasWord(p, W_CARGO)]

FeedbackIsRacing == [p \in SynthPrompts |-> HasWord(p, W_RACING)]

FeedbackIsHeavy == [p \in SynthPrompts |-> HasWord(p, W_HEAVY)]

NoPart == [src |-> "none", fuselage_len |-> 0, arm_len |-> 0, num_arms |-> 0]

\* the fallback of the fallback: bd.Box(100, 100, 20)
BasicBox == [src |-> "box", fuselage_len |-> 100, arm_len |-> 0, num_arms |-> 0]

\* mock == "ok": the assembly is built; "box": building it raised and the plain
\* box is returned; "none": the plain box raised too
create_smart_mock_part(prompt, mock) ==
    LET is_racing == MockIsRacing[prompt]
        is_heavy == MockIsHeavy[prompt]
    IN IF mock = "none" THEN NoPart
       ELSE IF mock = "box" THEN BasicBox
       ELSE IF is_racing
            THEN [src |-> "mock", fuselage_len |-> 100, arm_len |-> 120, num_arms |-> 4]
       ELSE IF is_heavy
            THEN [src |-> "mock", fuselage_len |-> 180, arm_len |-> 250, num_arms |-> 8]
       ELSE [src |-> "mock", fuselage_len |-> 120, arm_len |-> 180, num_arms |-> 4]

\* exec() of the artifact: "GoodCode" leaves a part, "NoPartCode" runs and leaves
\* none, "BadSyntax" raises SyntaxError, "ExitCode" calls sys.exit(), which is a
\* BaseException and passes the handler for Exception
execute_cad_code(cad_code, prompt, mock) ==
    IF cad_code = "ExitCode"
    THEN [part |-> NoPart, raised |-> "SystemExit"]
    ELSE IF cad_code = "GoodCode"
    THEN [part |-> [src |-> "generated", fuselage_len |-> 120, arm_len |-> 180,
                    num_arms |-> 4],
          raised |-> "none"]
    ELSE [part |-> create_smart_mock_part(prompt, mock), raised |-> "none"]

\* export == "ok": one mesh written; "empty": no mesh could be written;
\* "raise": walking the part raised and export_assembly re-raises
export_assembly(part, export) ==
    IF export = "raise" THEN [stl_files |-> 0, raised |-> "Exception"]
    ELSE IF export = "empty" THEN [stl_files |-> 0, raised |-> "none"]
    ELSE [stl_files |-> 1, raised |-> "none"]

\* open(urdf_path, "w") may raise OSError
save_urdf(urdf) ==
    IF urdf = "raise" THEN [urdf_path |-> "", raised |-> "Exception"]
    ELSE [urdf_path |-> "output/urdf/design.urdf", raised |-> "none"]

Min(a, b) == IF a < b THEN a ELSE b

MetricKeys ==
    {"stability_score", "max_acceleration", "position_drift",
     "energy_efficiency", "safety_factor"}

\* jitS, jitA: the two random.uniform draws, in hundredths
generate_smart_metrics(prompt, iteration, jitS, jitA) ==
    LET is_racing == MetricsIsRacing[prompt]
        is_heavy == MetricsIsHeavy[prompt]
        drift0 == 50 - iteration * 10
        drift == IF drift0 < 5 THEN 5 ELSE drift0
        stability == IF is_racing THEN 75 + iteration * 4
                     ELSE IF is_heavy THEN 95
                     ELSE 85 + iteration * 3
        max_accel == IF is_racing THEN 3500 + iteration * 200
                     ELSE IF is_heavy THEN 800
                     ELSE 1500
        energy == IF is_racing THEN 60
                  ELSE IF is_heavy THEN 85
                  ELSE 70 + iteration * 2
    IN [k \in MetricKeys |->
          CASE k = "stability_score" -> Min(stability + jitS, 99)
            [] k = "max_acceleration" -> max_accel + jitA
            [] k = "position_drift" -> drift
            [] k = "energy_efficiency" -> Min(energy, 98)
            [] k = "safety_factor" -> 150 + iteration * 10]

MockMetricKeys ==
    {"stability_score", "max_acceleration", "position_drift", "energy_efficiency",
     "oscillation_amplitude", "max_angular_velocity", "trajectory_smoothness"}

\* SimRunner.analyze_stability: the fixed metrics of a mock telemetry; no metric
\* at all when the telemetry holds no position
analyze_stability(telemetry) ==
    IF telemetry = "mock"
    THEN [k \in MockMetricKeys |->
            CASE k = "stability_score" -> 92
              [] k = "max_acceleration" -> 320
              [] k = "position_drift" -> 100
              [] k = "energy_efficiency" -> 85
              [] k = "oscillation_amplitude" -> 5
              [] k = "max_angular_velocity" -> 250
              [] k = "trajectory_smoothness" -> 88]
    ELSE NoMetrics

\* the thoughts generate_smart_feedback draws from: five common ones, then four
\* for a racing prompt or four for a heavy one
Thoughts(prompt) ==
    [k \in 1..5 |-> <<"common", k>>]
    \o (IF FeedbackIsRacing[prompt] THEN [k \in 1..4 |-> <<"racing", k>>]
        ELSE IF FeedbackIsHeavy[prompt] THEN [k \in 1..4 |-> <<"heavy", k>>]
        ELSE <<>>)

\* sel: the two positions random.sample picked
generate_smart_feedback(prompt, iteration, sel) ==
    [kind |-> "smart", iter |-> iteration,
     sel |-> <<Thoughts(prompt)[sel[1]], Thoughts(prompt)[sel[2]]>>]

LlmFeedback == [kind |-> "llm", iter |-> 0, sel |-> <<>>]

\* analysis == "text": the Analysis Collaborator answers; "empty": it answers
\* with an empty text; "fail": creating or calling it raises
analyze_simulation_with_gemini(s, e, analysis, sel) ==
    IF e.demo THEN generate_smart_feedback(s.mission_prompt, s.iteration, sel)
    ELSE IF ~e.apiKey
    THEN generate_smart_feedback(s.mission_prompt, s.iteration, sel)
    ELSE IF analysis = "text" THEN LlmFeedback
    ELSE IF analysis = "empty" THEN NoFeedback
    ELSE generate_smart_feedback(s.mission_prompt, s.iteration, sel)

\* Step 4 of simulator_node.  sim is what the subprocess did: "mock" (exit 0,
\* result file of a mock run), "empty" (exit 0, result file of a run that
\* captured no position), "nonzero", "nofile", "badjson"
\* Step 4 without the handler around json.load: an unreadable result file is
\* taken as a result without metrics
RunSimulation_unreadable_as_empty(s, e, o) ==
    IF e.demo
    THEN [s EXCEPT !.simulation_metrics =
                       generate_smart_metrics(s.mission_prompt, s.iteration,
                                              o.jitS, o.jitA),
                   !.simulation_results = "demo"]
    ELSE IF o.sim \in {"mock", "empty"}
    THEN [s EXCEPT !.simulation_metrics = analyze_stability(o.sim),
                   !.simulation_results = "telemetry"]
    ELSE IF o.sim = "badjson"
    THEN [s EXCEPT !.simulation_metrics = NoMetrics,
                   !.simulation_results = "telemetry"]
    ELSE [s EXCEPT !.simulation_metrics =
                       generate_smart_metrics(s.mission_prompt, s.iteration,
                                              o.jitS, o.jitA),
                   !.simulation_results = "fallback"]

RunSimulation(s, e, o) ==
    IF e.demo
    THEN [s EXCEPT !.simulation_metrics =
                       generate_smart_metrics(s.mission_prompt, s.iteration,
                                              o.jitS, o.jitA),
                   !.simulation_results = "demo"]
    ELSE IF o.sim \in {"mock", "empty"}
    THEN [s EXCEPT !.simulation_metrics = analyze_stability(o.sim),
                   !.simulation_results = "telemetry"]
    ELSE [s EXCEPT !.simulation_metrics =
                       generate_smart_metrics(s.mission_prompt, s.iteration,
                                              o.jitS, o.jitA),
                   !.simulation_results = "fallback"]

\* simulator_node that wipes the results of the last evaluation when it finds
\* no artifact
simulator_node_wipes_results(s, e, o) ==
    LET s1 == [s EXCEPT !.status = "simulating"]
        ex == execute_cad_code(s1.cad_code, s1.mission_prompt, o.mock)
        xp == export_assembly(ex.part, o.export)
        su == save_urdf(o.urdf)
        s2 == [s1 EXCEPT !.urdf_path = su.urdf_path]
        s3 == RunSimulation(s2, e, o)
        fb == analyze_simulation_with_gemini(s3, e, o.analysis, o.sel)
        s4 == IF fb.kind # "empty" THEN [s3 EXCEPT !.designer_feedback = fb]
              ELSE s3
    IN IF s1.cad_code = ""
       THEN [state |-> AppendError([s1 EXCEPT !.simulation_metrics = NoMetrics,
                                              !.urdf_path = ""],
                                   ERR_NO_CAD),
             raised |-> "none", reached |-> "precondition"]
       ELSE IF ex.raised # "none"
       THEN [state |-> s1, raised |-> ex.raised, reached |-> "materialize"]
       ELSE IF ex.part = NoPart
       THEN [state |-> AppendError(s1, ERR_EXEC), raised |-> "none",
             reached |-> "materialize"]
       ELSE IF xp.raised # "none"
       THEN [state |-> s1, raised |-> xp.raised, reached |-> "export"]
       ELSE IF xp.stl_files = 0
       THEN [state |-> AppendError(s1, ERR_EXPORT), raised |-> "none",
             reached |-> "export"]
       ELSE IF su.raised # "none"
       THEN [state |-> s1, raised |-> su.raised, reached |-> "describe"]
       ELSE IF ~e.demo /\ o.sim = "hang"
       THEN [state |-> s2, raised |-> "blocked", reached |-> "simulate"]
       ELSE [state |-> s4, raised |-> "none", reached |-> "analyze"]

\* raised: the exception that left the call, if any, or "blocked" when the call
\* waits in subprocess.run for a subprocess that never exits; reached: the step
\* the call got to before it returned, raised or blocked
simulator_node(s, e, o) ==
    LET s1 == [s EXCEPT !.status = "simulating"]
        ex == execute_cad_code(s1.cad_code, s1.mission_prompt, o.mock)
        xp == export_assembly(ex.part, o.export)
        su == save_urdf(o.urdf)
        s2 == [s1 EXCEPT !.urdf_path = su.urdf_path]
        s3 == RunSimulation(s2, e, o)
        fb == analyze_simulation_with_gemini(s3, e, o.analysis, o.sel)
        s4 == IF fb.kind # "empty" THEN [s3 EXCEPT !.designer_feedback = fb]
              ELSE s3
    IN IF s1.cad_code = ""
       THEN [state |-> AppendError(s1, ERR_NO_CAD), raised |-> "none",
             reached |-> "precondition"]
       ELSE IF ex.raised # "none"
       THEN [state |-> s1, raised |-> ex.raised, reached |-> "materialize"]
       ELSE IF ex.part = NoPart
       THEN [state |-> AppendError(s1, ERR_EXEC), raised |-> "none",
             reached |-> "materialize"]
       ELSE IF xp.raised # "none"
       THEN [state |-> s1, raised |-> xp.raised, reached |-> "export"]
       ELSE IF xp.stl_files = 0
       THEN [state |-> AppendError(s1, ERR_EXPORT), raised |-> "none",
             reached |-> "export"]
       ELSE IF su.raised # "none"
       THEN [state |-> s1, raised |-> su.raised, reached |-> "describe"]
       ELSE IF ~e.demo /\ o.sim = "hang"
       THEN [state |-> s2, raised |-> "blocked", reached |-> "simulate"]
       ELSE [state |-> s4, raised |-> "none", reached |-> "analyze"]

\* the two random.uniform draws, in hundredths
Jitters == {<<-2, -100>>, <<0, 0>>, <<2, 100>>}

\* the positions random.sample(thoughts, k=2) is let to return: the first two
\* thoughts, or the last thought and then the first
Samples(prompt) == {<<1, 2>>, <<Len(Thoughts(prompt)), 1>>}

NominalOutcome ==
    [mock |-> "ok", export |-> "ok", urdf |-> "ok", sim |-> "mock",
     jitS |-> 0, jitA |-> 0, analysis |-> "text", sel |-> <<1, 2>>]

NotDrawn ==
    [mock |-> "none", export |-> "none", urdf |-> "none", sim |-> "none",
     jitS |-> 0, jitA |-> 0, analysis |-> "none", sel |-> <<1, 2>>]

\* the ways one EvaluationStage call can go, in the state and environment given;
\* an input the call does not read keeps its nominal value
SimOutcomes(s, e) ==
    LET usesMock == s.cad_code \in {"NoPartCode", "BadSyntax"}
        sims == IF e.demo THEN {"mock"}
                ELSE {"mock", "empty", "nonzero", "nofile", "badjson"}
        analyses == IF e.demo \/ ~e.apiKey THEN {"text"}
                    ELSE {"text", "empty", "fail"}
        smartFb(a) == e.demo \/ ~e.apiKey \/ a = "fail"
        smartMx(x) == e.demo \/ x \notin {"mock", "empty"}
    IN IF s.cad_code \in {"", "ExitCode"} THEN {NominalOutcome}
       ELSE (IF usesMock
             THEN {[NominalOutcome EXCEPT !.mock = "none"]}
             ELSE {})
            \cup {[NominalOutcome EXCEPT !.mock = m, !.export = x] :
                     m \in (IF usesMock THEN {"ok", "box"} ELSE {"ok"}),
                     x \in {"empty", "raise"}}
            \cup {[NominalOutcome EXCEPT !.urdf = "raise"]}
            \cup (IF e.demo THEN {} ELSE {[NominalOutcome EXCEPT !.sim = "hang"]})
            \cup UNION {UNION {
                   {[NominalOutcome EXCEPT !.sim = x, !.analysis = a,
                                           !.jitS = j[1], !.jitA = j[2],
                                           !.sel = p] :
                        j \in (IF smartMx(x) THEN Jitters ELSE {<<0, 0>>}),
                        p \in (IF smartFb(a) THEN Samples(s.mission_prompt)
                               ELSE {<<1, 2>>})} :
                   a \in analyses} : x \in sims}

----------------------------------------------------------------------------
(* DesignStage with the preset template: agents/terrainSupervisor.py *)

W_MEDICAL == <<"m","e","d","i","c","a","l">>

W_RESCUE == <<"r","e","s","c","u","e">>

W_DELIVERY == <<"d","e","l","i","v","e","r","y">>

W_HIMALAYAN == <<"h","i","m","a","l","a","y","a","n">>

W_ALTITUDE == <<"a","l","t","i","t","u","d","e">>

W_MOUNTAIN == <<"m","o","u","n","t","a","i","n">>

\* the keyword tests of generate_template_cad, computed once for every prompt
TemplateIsMedical ==
    [p \in Prompts |->
        HasWord(p, W_MEDICAL) \/ HasWord(p, W_RESCUE) \/ HasWord(p, W_DELIVERY)
        \/ HasWord(p, W_HIMALAYAN) \/ HasWord(p, W_ALTITUDE) \/ HasWord(p, W_MOUNTAIN)]

\* the text generate_template_cad returns: one per drone type, and a second one
\* per type (thicker arms, wider mounts) from iteration 2 on
generate_template_cad(prompt, iteration) ==
    LET type == IF TemplateIsMedical[prompt] THEN "medical"
                ELSE IF MockIsRacing[prompt] THEN "racing"
                ELSE IF MockIsHeavy[prompt] THEN "heavy"
                ELSE "default"
    IN CASE type = "medical" /\ iteration <= 1 -> "TemplateMedical"
         [] type = "medical" /\ iteration > 1 -> "TemplateMedicalThick"
         [] type = "racing" /\ iteration <= 1 -> "TemplateRacing"
         [] type = "racing" /\ iteration > 1 -> "TemplateRacingThick"
         [] type = "heavy" /\ iteration <= 1 -> "TemplateHeavy"
         [] type = "heavy" /\ iteration > 1 -> "TemplateHeavyThick"
         [] type = "default" /\ iteration <= 1 -> "TemplateDefault"
         [] type = "default" /\ iteration > 1 -> "TemplateDefaultThick"

\* e.mockKey: the key is set and starts with "sk-or-v1-mock"
UsesTemplate(e) == (~e.apiKey \/ e.mockKey) /\ (e.demo \/ e.mockKey)

\* the template is stored in cad_code and left out of design_history
terrain_designer_node_unrecorded(s, e, o) ==
    LET s1 == [s EXCEPT !.status = "designing", !.iteration = @ + 1]
    IN IF UsesTemplate(e)
       THEN [s1 EXCEPT !.cad_code =
                           generate_template_cad(s1.mission_prompt, s1.iteration)]
       ELSE designer_node(s, e.apiKey /\ ~e.mockKey, o)

\* designer_node of terrainSupervisor.py: past the key test it is the text of
\* designer_node of designer.py
terrain_designer_node(s, e, o) ==
    LET s1 == [s EXCEPT !.status = "designing", !.iteration = @ + 1]
        code == generate_template_cad(s1.mission_prompt, s1.iteration)
    IN IF UsesTemplate(e)
       THEN [s1 EXCEPT !.cad_code = code, !.design_history = Append(@, code)]
       ELSE designer_node(s, e.apiKey /\ ~e.mockKey, o)

----------------------------------------------------------------------------
(* DecisionStage: agents/supervisor.py *)

Get(m, k, default) == IF k \in DOMAIN m THEN m[k] ELSE default

\* the heuristic without the test of errors
simple_heuristic_decision_ignores_errors(s) ==
    LET metrics == s.simulation_metrics
        stability == Get(metrics, "stability_score", 0)
        max_accel == Get(metrics, "max_acceleration", 10000)
        position_drift == Get(metrics, "position_drift", 10000)
    IN IF s.iteration < MIN_ITERATIONS THEN "iterate"
       ELSE IF stability < 85 THEN "iterate"
       ELSE IF max_accel > 1000 THEN "iterate"
       ELSE IF position_drift > 50 THEN "iterate"
       ELSE "finish"

\* the heuristic with the stability threshold excluded
simple_heuristic_decision_strict(s) ==
    LET metrics == s.simulation_metrics
        stability == IF "stability_score" \in DOMAIN metrics
                     THEN metrics["stability_score"] ELSE 0
        max_accel == IF "max_acceleration" \in DOMAIN metrics
                     THEN metrics["max_acceleration"] ELSE 10000
        position_drift == IF "position_drift" \in DOMAIN metrics
                          THEN metrics["position_drift"] ELSE 10000
    IN IF s.iteration < MIN_ITERATIONS THEN "iterate"
       ELSE IF stability <= 85 THEN "iterate"
       ELSE IF max_accel > 1000 THEN "iterate"
       ELSE IF position_drift > 50 THEN "iterate"
       ELSE IF s.errors # <<>> THEN "iterate"
       ELSE "finish"

simple_heuristic_decision(s) ==
    LET metrics == s.simulation_metrics
        stability == Get(metrics, "stability_score", 0)
        max_accel == Get(metrics, "max_acceleration", 10000)
        position_drift == Get(metrics, "position_drift", 10000)
    IN IF s.iteration < MIN_ITERATIONS THEN "iterate"
       ELSE IF stability < 85 THEN "iterate"
       ELSE IF max_accel > 1000 THEN "iterate"
       ELSE IF position_drift > 50 THEN "iterate"
       ELSE IF s.errors # <<>> THEN "iterate"
       ELSE "finish"

\* the ways one Decision Collaborator use can go
DecisionOutcomes ==
    [kind : {"init_fail", "invoke_fail"}, text : {<<>>}]
    \cup [kind : {"answer"},
          text : {TXT_ITERATE, TXT_FINISH, TXT_FINISH_RAW, TXT_OTHER}]

\* analyze_with_gemini without the handler around llm.invoke
analyze_with_gemini_unhandled(s, apiKey, o) ==
    IF ~apiKey THEN simple_heuristic_decision(s)
    ELSE IF o.kind = "init_fail" THEN simple_heuristic_decision(s)
    ELSE IF o.kind = "invoke_fail" THEN "raise"
    ELSE LET d == Lower(Strip(o.text))
         IN IF d = TXT_ITERATE THEN "iterate"
            ELSE IF d = TXT_FINISH THEN "finish"
            ELSE simple_heuristic_decision(s)

\* analyze_with_gemini that compares the answer as it came, without strip()
analyze_with_gemini_no_strip(s, apiKey, o) ==
    IF ~apiKey THEN simple_heuristic_decision(s)
    ELSE IF o.kind = "init_fail" THEN simple_heuristic_decision(s)
    ELSE IF o.kind = "invoke_fail" THEN simple_heuristic_decision(s)
    ELSE LET d == Lower(o.text)
         IN IF d = TXT_ITERATE THEN "iterate"
            ELSE IF d = TXT_FINISH THEN "finish"
            ELSE simple_heuristic_decision(s)

analyze_with_gemini(s, apiKey, o) ==
    IF ~apiKey THEN simple_heuristic_decision(s)
    ELSE IF o.kind = "init_fail" THEN simple_heuristic_decision(s)
    ELSE IF o.kind = "invoke_fail" THEN simple_heuristic_decision(s)
    ELSE LET d == Lower(Strip(o.text))
         IN IF d = TXT_ITERATE THEN "iterate"
            ELSE IF d = TXT_FINISH THEN "finish"
            ELSE simple_heuristic_decision(s)

\* every text that can enter errors
ErrorTexts ==
    {ERR_NO_KEY, ERR_NO_CAD, ERR_EXEC, ERR_EXPORT}
    \cup {ERR_INIT_PREFIX \o m : m \in ExcMsgs}
    \cup {ERR_DESIGNER_PREFIX \o m : m \in ExcMsgs}
    \cup {ERR_SYNTAX_PREFIX \o m : m \in {MSG_SYNTAX, MSG_SYNTAX_NAME}}

\* "fatal" in e.lower(), computed once for every error text
FatalInLower == [e \in ErrorTexts |-> Contains(Lower(e), FATAL_TAG)]

FatalAsWritten == [e \in ErrorTexts |-> Contains(e, FATAL_TAG)]

\* the test without lower()
IsFatal_case_sensitive(e) == FatalAsWritten[e]

IsFatal(e) == FatalInLower[e]

HasFatal(errors) == \E k \in 1..Len(errors) : IsFatal(errors[k])

\* supervisor_node without Condition A
supervisor_node_no_cap(s, apiKey, o) ==
    LET s1 == [s EXCEPT !.status = "analyzing"]
        d == analyze_with_gemini(s1, apiKey, o)
    IN IF HasFatal(s1.errors)
       THEN [state |-> [s1 EXCEPT !.status = "failed"], next |-> "finish"]
       ELSE IF d = "iterate"
       THEN [state |-> [s1 EXCEPT !.status = "designing"], next |-> d]
       ELSE IF d = "finish"
       THEN [state |-> [s1 EXCEPT !.status = "complete"], next |-> d]
       ELSE [state |-> s1, next |-> "raise"]

\* supervisor_node with Condition B tested before Condition A
supervisor_node_fatal_first(s, apiKey, o) ==
    LET s1 == [s EXCEPT !.status = "analyzing"]
        d == analyze_with_gemini(s1, apiKey, o)
    IN IF HasFatal(s1.errors)
       THEN [state |-> [s1 EXCEPT !.status = "failed"], next |-> "finish"]
       ELSE IF s1.iteration >= MAX_ITERATIONS
       THEN [state |-> [s1 EXCEPT !.status = "complete"], next |-> "finish"]
       ELSE IF d = "iterate"
       THEN [state |-> [s1 EXCEPT !.status = "designing"], next |-> d]
       ELSE IF d = "finish"
       THEN [state |-> [s1 EXCEPT !.status = "complete"], next |-> d]
       ELSE [state |-> s1, next |-> "raise"]

\* supervisor_node without Condition B
supervisor_node_no_fatal(s, apiKey, o) ==
    LET s1 == [s EXCEPT !.status = "analyzing"]
        d == analyze_with_gemini(s1, apiKey, o)
    IN IF s1.iteration >= MAX_ITERATIONS
       THEN [state |-> [s1 EXCEPT !.status = "complete"], next |-> "finish"]
       ELSE IF d = "iterate"
       THEN [state |-> [s1 EXCEPT !.status = "designing"], next |-> d]
       ELSE IF d = "finish"
       THEN [state |-> [s1 EXCEPT !.status = "complete"], next |-> d]
       ELSE [state |-> s1, next |-> "raise"]

\* next is "raise" when the call ends in an exception instead of a return
supervisor_node(s, apiKey, o) ==
    LET s1 == [s EXCEPT !.status = "analyzing"]
        d == analyze_with_gemini(s1, apiKey, o)
    IN IF s1.iteration >= MAX_ITERATIONS
       THEN [state |-> [s1 EXCEPT !.status = "complete"], next |-> "finish"]
       ELSE IF HasFatal(s1.errors)
       THEN [state |-> [s1 EXCEPT !.status = "failed"], next |-> "finish"]
       ELSE IF d = "iterate"
       THEN [state |-> [s1 EXCEPT !.status = "designing"], next |-> d]
       ELSE IF d = "finish"
       THEN [state |-> [s1 EXCEPT !.status = "complete"], next |-> d]
       ELSE [state |-> s1, next |-> "raise"]

NotAsked == [kind |-> "unused", text |-> <<>>]

\* the Decision Collaborator contacted before the two hard rules are looked at
DecisionChoices_asks_first(s, apiKey) ==
    IF ~apiKey THEN {NotAsked} ELSE DecisionOutcomes

\* the Decision Collaborator is used only past the two hard rules and with a key
DecisionChoices(s, apiKey) ==
    IF s.iteration >= MAX_ITERATIONS \/ HasFatal(s.errors) \/ ~apiKey
    THEN {NotAsked}
    ELSE DecisionOutcomes

----------------------------------------------------------------------------
(* MissionManager: server.py *)

create_mission(prompt) ==
    [ status |-> "initializing", iteration |-> 0, current_agent |-> "none",
      errors |-> <<>>, simulation_metrics |-> NoMetrics, active |-> TRUE ]

\* add_error for every entry of the state's errors; a mission that is no longer
\* active is left alone
AddErrors(m, errors) ==
    IF m.active THEN [m EXCEPT !.errors = @ \o errors] ELSE m

complete_mission(m, success) ==
    IF m.active
    THEN [m EXCEPT !.active = FALSE,
                   !.status = IF success THEN "complete" ELSE "failed"]
    ELSE m

----------------------------------------------------------------------------
(* The controllers *)

\* the max_iterations a MissionRequest is given: none, fewer than, as many as and
\* more than MAX_ITERATIONS
Overrides == {0, 2, MAX_ITERATIONS, MaxOverride}

\* what an outcome costs of the failure budget: one for each collaborator that
\* does not do its nominal job
B(x) == IF x THEN 1 ELSE 0

DesignFaults(o) == B(o.kind # "code" \/ o.code # "GoodCode")

\* (how the synthetic model is built costs nothing: it is asked for only after
\* an artifact that has been paid for)
SimFaults(o) ==
    B(o.export # "ok") + B(o.urdf # "ok")
    + B(o.sim # "mock") + B(o.analysis # "text")

DecisionFaults(o) ==
    B(o.kind \in {"init_fail", "invoke_fail"}
      \/ (o.kind = "answer" /\ o.text \notin {TXT_ITERATE, TXT_FINISH}))

Init ==
    /\ ParIdle
    /\ ctl \in {"server", "app"}
    /\ env \in [apiKey : BOOLEAN, demo : BOOLEAN]
    \* submit_mission refuses a mission when the key is not set
    /\ ctl = "server" => env.apiKey
    /\ max_iterations \in (IF ctl = "server" THEN Overrides ELSE {APP_MAX_ITERATIONS})
    /\ \E prompt \in Prompts :
          /\ state = create_initial_state(prompt)
          /\ mission = create_mission(prompt)
    /\ pc = IF ctl = "server" THEN "start" ELSE "idle"
    /\ i = 0
    /\ decision = "none"
    /\ evalOutcome = "none"
    /\ designCalls = 0
    /\ runCalls = 0
    /\ launches = 0
    /\ held = FALSE
    /\ faults = 0
    /\ lastStage = "none"
    /\ asked = NotAsked
    /\ designed = NotDesigned
    /\ produced = 0
    /\ evalReached = "none"
    /\ drawn = NotDrawn

\* run_workflow_async up to the loop head
ServerStart ==
    /\ ctl = "server" /\ pc = "start"
    /\ mission' = [mission EXCEPT !.status = "running", !.current_agent = "supervisor"]
    /\ i' = 0
    /\ launches' = launches + 1
    /\ pc' = IF 0 < max_iterations THEN "design" ELSE "done"
    /\ UNCHANGED <<env, ctl, max_iterations, state, decision, evalOutcome,
                   designCalls, runCalls, held, faults, lastStage, asked,
                   designed, produced, evalReached, drawn>>
    /\ UNCHANGED par_vars

\* the Designer part of one loop step
ServerDesign ==
    /\ ctl = "server" /\ pc = "design"
    /\ \E o \in DesignOutcomes :
          LET s == designer_node(state, env.apiKey, o)
              m1 == [mission EXCEPT !.iteration = i + 1,
                                    !.current_agent = "designer",
                                    !.status = "designing"]
          IN /\ faults + DesignFaults(o) <= MaxFaults
             /\ faults' = faults + DesignFaults(o)
             /\ state' = s
             /\ mission' = AddErrors(m1, s.errors)
             /\ designed' = DesignUse(state, env.apiKey, o)
             /\ produced' = produced + B(StoresArtifact(env.apiKey, o))
    /\ designCalls' = designCalls + 1
    /\ runCalls' = runCalls + 1
    /\ pc' = "evaluate"
    /\ lastStage' = "design"
    /\ UNCHANGED <<env, ctl, max_iterations, i, decision, evalOutcome, launches,
                   held, asked, evalReached, drawn>>
    /\ UNCHANGED par_vars

\* how a simulator_node call ended: "raised", "blocked" (it has not returned),
\* "early" (it recorded an error and returned before the description document)
\* or "full"
EvalOutcome(s, r) ==
    IF r.raised = "blocked" THEN "blocked"
    ELSE IF r.raised # "none" THEN "raised"
    ELSE IF Len(r.state.errors) > Len(s.errors) THEN "early"
    ELSE "full"

\* the handler of run_workflow_async for an Exception raised in the loop
WorkflowFailed(m, msg) ==
    complete_mission(AddErrors(m, <<ERR_WORKFLOW_PREFIX \o msg>>), FALSE)

\* the Simulator part of one loop step
ServerEvaluate ==
    /\ ctl = "server" /\ pc = "evaluate"
    /\ \E o \in SimOutcomes(state, env) :
          LET r == simulator_node(state, env, o)
              m1 == [mission EXCEPT !.current_agent = "simulator",
                                    !.status = "simulating"]
              m2 == AddErrors(m1, r.state.errors)
              m3 == IF r.state.simulation_metrics # NoMetrics
                    THEN [m2 EXCEPT !.simulation_metrics = r.state.simulation_metrics]
                    ELSE m2
          IN /\ faults + SimFaults(o) <= MaxFaults
             /\ faults' = faults + SimFaults(o)
             /\ state' = r.state
             /\ evalOutcome' = EvalOutcome(state, r)
             /\ evalReached' = r.reached
             /\ drawn' = o
             /\ mission' = IF r.raised = "none" THEN m3
                           ELSE IF r.raised = "Exception"
                           THEN WorkflowFailed(m1, MSG_DISK)
                           ELSE m1
             /\ pc' = IF r.raised = "none" THEN "decide"
                      ELSE IF r.raised = "Exception" THEN "done"
                      ELSE IF r.raised = "blocked" THEN "blocked"
                      ELSE "crashed"
    /\ lastStage' = "evaluate"
    /\ UNCHANGED <<env, ctl, max_iterations, i, decision, designCalls, runCalls,
                   launches, held, asked, designed, produced>>
    /\ UNCHANGED par_vars

\* ServerDecide with the loop going on after a finish decision
ServerDecide_ignores_finish ==
    /\ ctl = "server" /\ pc = "decide"
    /\ \E o \in DecisionChoices(state, env.apiKey) :
          LET d == supervisor_node(state, env.apiKey, o)
              m1 == [mission EXCEPT !.current_agent = "supervisor",
                                    !.status = "analyzing"]
          IN /\ faults + DecisionFaults(o) <= MaxFaults
             /\ faults' = faults + DecisionFaults(o)
             /\ asked' = o
             /\ state' = d.state
             /\ decision' = d.next
             /\ IF d.next = "raise"
                THEN /\ mission' = WorkflowFailed(m1, MSG_TIMEOUT)
                     /\ pc' = "done"
                     /\ i' = i
                ELSE IF i < max_iterations - 1
                THEN /\ mission' = m1
                     /\ pc' = "design"
                     /\ i' = i + 1
                ELSE /\ mission' = complete_mission(m1, TRUE)
                     /\ pc' = "done"
                     /\ i' = i
    /\ lastStage' = "decide"
    /\ UNCHANGED <<env, ctl, max_iterations, evalOutcome, designCalls, runCalls,
                   launches, held, designed, produced, evalReached, drawn>>
    /\ UNCHANGED par_vars

\* the Supervisor part of one loop step, and the end of the loop body
ServerDecide ==
    /\ ctl = "server" /\ pc = "decide"
    /\ \E o \in DecisionChoices(state, env.apiKey) :
          LET d == supervisor_node(state, env.apiKey, o)
              m1 == [mission EXCEPT !.current_agent = "supervisor",
                                    !.status = "analyzing"]
          IN /\ faults + DecisionFaults(o) <= MaxFaults
             /\ faults' = faults + DecisionFaults(o)
             /\ asked' = o
             /\ state' = d.state
             /\ decision' = d.next
             /\ IF d.next = "raise"
                THEN /\ mission' = WorkflowFailed(m1, MSG_TIMEOUT)
                     /\ pc' = "done"
                     /\ i' = i
                ELSE IF d.next = "finish"
                THEN /\ mission' = complete_mission([m1 EXCEPT !.status = "complete"], TRUE)
                     /\ pc' = "done"
                     /\ i' = i
                ELSE IF i < max_iterations - 1
                THEN /\ mission' = m1
                     /\ pc' = "design"
                     /\ i' = i + 1
                ELSE /\ mission' = complete_mission(m1, TRUE)
                     /\ pc' = "done"
                     /\ i' = i
    /\ lastStage' = "decide"
    /\ UNCHANGED <<env, ctl, max_iterations, evalOutcome, designCalls, runCalls,
                   launches, held, designed, produced, evalReached, drawn>>
    /\ UNCHANGED par_vars

\* app.py main: "Launch Design" clicked; run_workflow_graph up to the loop head
AppLaunch ==
    /\ ctl = "app" /\ pc \in {"idle", "done", "crashed"}
    /\ launches < MaxLaunches
    /\ launches' = launches + 1
    /\ state' = IF held THEN state ELSE create_initial_state(state.mission_prompt)
    /\ designCalls' = IF held THEN designCalls ELSE 0
    /\ runCalls' = 0
    /\ i' = 0
    /\ decision' = "none"
    /\ evalOutcome' = "none"
    /\ pc' = "design"
    /\ lastStage' = "none"
    /\ asked' = NotAsked
    /\ designed' = NotDesigned
    /\ produced' = IF held THEN produced ELSE 0
    /\ evalReached' = "none"
    /\ drawn' = NotDrawn
    /\ UNCHANGED <<env, ctl, max_iterations, mission, held, faults>>
    /\ UNCHANGED par_vars

AppDesign ==
    /\ ctl = "app" /\ pc = "design"
    /\ \E o \in DesignOutcomes :
          LET s == designer_node(state, env.apiKey, o)
          IN /\ faults + DesignFaults(o) <= MaxFaults
             /\ faults' = faults + DesignFaults(o)
             /\ state' = s
             /\ pc' = IF s.errors # <<>> THEN "done" ELSE "evaluate"
             /\ held' = IF s.errors # <<>> THEN TRUE ELSE held
             /\ designed' = DesignUse(state, env.apiKey, o)
             /\ produced' = produced + B(StoresArtifact(env.apiKey, o))
    /\ designCalls' = designCalls + 1
    /\ runCalls' = runCalls + 1
    /\ lastStage' = "design"
    /\ UNCHANGED <<env, ctl, max_iterations, mission, i, decision, evalOutcome,
                   launches, asked, evalReached, drawn>>
    /\ UNCHANGED par_vars

AppEvaluate ==
    /\ ctl = "app" /\ pc = "evaluate"
    /\ \E o \in SimOutcomes(state, env) :
          LET r == simulator_node(state, env, o)
          IN /\ faults + SimFaults(o) <= MaxFaults
             /\ faults' = faults + SimFaults(o)
             /\ state' = r.state
             /\ evalOutcome' = EvalOutcome(state, r)
             /\ evalReached' = r.reached
             /\ drawn' = o
             /\ pc' = IF r.raised = "blocked" THEN "blocked"
                      ELSE IF r.raised # "none" THEN "crashed"
                      ELSE IF r.state.errors # <<>> THEN "done"
                      ELSE "decide"
             /\ held' = IF r.raised = "none" /\ r.state.errors # <<>> THEN TRUE
                        ELSE held
    /\ lastStage' = "evaluate"
    /\ UNCHANGED <<env, ctl, max_iterations, mission, i, decision, designCalls,
                   runCalls, launches, asked, designed, produced>>
    /\ UNCHANGED par_vars

AppDecide ==
    /\ ctl = "app" /\ pc = "decide"
    /\ \E o \in DecisionChoices(state, env.apiKey) :
          LET d == supervisor_node(state, env.apiKey, o)
              last == d.next = "finish" \/ ~(i + 1 < max_iterations)
          IN /\ faults + DecisionFaults(o) <= MaxFaults
             /\ faults' = faults + DecisionFaults(o)
             /\ asked' = o
             /\ state' = d.state
             /\ decision' = d.next
             /\ pc' = IF d.next = "raise" THEN "crashed"
                      ELSE IF last THEN "done" ELSE "design"
             /\ i' = IF d.next = "iterate" /\ ~last THEN i + 1 ELSE i
             /\ held' = IF d.next # "raise" /\ last THEN TRUE ELSE held
    /\ lastStage' = "decide"
    /\ UNCHANGED <<env, ctl, max_iterations, mission, evalOutcome, designCalls,
                   runCalls, launches, designed, produced, evalReached, drawn>>
    /\ UNCHANGED par_vars

Next ==
    \/ ServerStart
    \/ ServerDesign
    \/ ServerEvaluate
    \/ ServerDecide
    \/ AppLaunch
    \/ AppDesign
    \/ AppEvaluate
    \/ AppDecide

Spec == Init /\ [][Next]_vars

----------------------------------------------------------------------------
(* simple_heuristic_decision on its own: every iteration value around the two
   limits, every metric missing, below, at and above its threshold *)

MetricOptions == {"missing", "below", "at", "above"}

Offset(opt) == IF opt = "below" THEN -1 ELSE IF opt = "above" THEN 1 ELSE 0

GridMetrics(st, ac, dr) ==
    LET keys == (IF st = "missing" THEN {} ELSE {"stability_score"})
                \cup (IF ac = "missing" THEN {} ELSE {"max_acceleration"})
                \cup (IF dr = "missing" THEN {} ELSE {"position_drift"})
    IN [k \in keys |->
          CASE k = "stability_score" -> 85 + Offset(st)
            [] k = "max_acceleration" -> 1000 + Offset(ac)
            [] k = "position_drift" -> 50 + Offset(dr)]

InitHeuristic ==
    /\ ParIdle
    /\ ctl = "none"
    /\ env = [apiKey |-> FALSE, demo |-> FALSE]
    /\ max_iterations = MAX_ITERATIONS
    /\ \E n \in 0..(MAX_ITERATIONS + 1), st \in MetricOptions, ac \in MetricOptions,
          dr \in MetricOptions, e \in {<<>>, <<ERR_NO_CAD>>} :
          state = [create_initial_state(PROMPT_SURVEY) EXCEPT
                      !.iteration = n,
                      !.simulation_metrics = GridMetrics(st, ac, dr),
                      !.errors = e]
    /\ mission = create_mission(PROMPT_SURVEY)
    /\ pc = "heuristic"
    /\ i = 0
    /\ decision = "none"
    /\ evalOutcome = "none"
    /\ designCalls = 0
    /\ runCalls = 0
    /\ launches = 0
    /\ held = FALSE
    /\ faults = 0
    /\ lastStage = "none"
    /\ asked = NotAsked
    /\ designed = NotDesigned
    /\ produced = 0
    /\ evalReached = "none"
    /\ drawn = NotDrawn

HeuristicStep ==
    /\ pc = "heuristic"
    /\ decision' = simple_heuristic_decision(state)
    /\ pc' = "decided"
    /\ UNCHANGED <<env, ctl, max_iterations, state, mission, i, evalOutcome,
                   designCalls, runCalls, launches, held, faults, lastStage, asked,
                   designed, produced, evalReached, drawn>>
    /\ UNCHANGED par_vars

SpecHeuristic == InitHeuristic /\ [][HeuristicStep]_vars

----------------------------------------------------------------------------
(* designer_node called over and over on one WorkflowState, from either module *)

\* designer_node calls made on the one WorkflowState
MaxDesignCalls == 4

InitDesigners ==
    /\ ParIdle
    /\ ctl \in {"designer", "terrain"}
    /\ env \in {e \in [apiKey : BOOLEAN, demo : BOOLEAN, mockKey : BOOLEAN] :
                    e.mockKey => e.apiKey}
    /\ max_iterations = MAX_ITERATIONS
    /\ \E prompt \in Prompts :
          /\ state = create_initial_state(prompt)
          /\ mission = create_mission(prompt)
    /\ pc = "designers"
    /\ i = 0
    /\ decision = "none"
    /\ evalOutcome = "none"
    /\ designCalls = 0
    /\ runCalls = 0
    /\ launches = 0
    /\ held = FALSE
    /\ faults = 0
    /\ lastStage = "none"
    /\ asked = NotAsked
    /\ designed = NotDesigned
    /\ produced = 0
    /\ evalReached = "none"
    /\ drawn = NotDrawn

DesignerCall ==
    /\ pc = "designers"
    /\ designCalls < MaxDesignCalls
    /\ \E o \in DesignOutcomes :
          LET template == ctl = "terrain" /\ UsesTemplate(env)
              key == IF ctl = "terrain" THEN env.apiKey /\ ~env.mockKey
                     ELSE env.apiKey
              cost == IF template THEN 0 ELSE DesignFaults(o)
          IN /\ faults + cost <= MaxFaults
             /\ faults' = faults + cost
             /\ state' = IF ctl = "terrain" THEN terrain_designer_node(state, env, o)
                         ELSE designer_node(state, env.apiKey, o)
             /\ designed' = IF template
                            THEN [kind |-> "template", msg |-> <<>>, code |-> "",
                                  invoked |-> FALSE, request |-> NoRequest]
                            ELSE DesignUse(state, key, o)
             /\ produced' = produced + B(template \/ StoresArtifact(key, o))
    /\ designCalls' = designCalls + 1
    /\ runCalls' = runCalls + 1
    /\ lastStage' = "design"
    /\ UNCHANGED <<env, ctl, max_iterations, mission, pc, i, decision, evalOutcome,
                   launches, held, asked, evalReached, drawn>>
    /\ UNCHANGED par_vars

SpecDesigners == InitDesigners /\ [][DesignerCall]_vars

----------------------------------------------------------------------------
(* generate_smart_metrics and generate_smart_feedback on their own: every prompt,
   every iteration value up to MaxSynthIteration, every draw of the random
   calls *)

\* largest iteration value the synthesis is computed for
MaxSynthIteration == 6

InitSynthetic ==
    /\ ParIdle
    /\ ctl = "none"
    /\ env = [apiKey |-> FALSE, demo |-> TRUE]
    /\ max_iterations = MAX_ITERATIONS
    /\ \E prompt \in SynthPrompts, n \in 0..MaxSynthIteration, j \in Jitters :
          /\ state = [create_initial_state(prompt) EXCEPT !.iteration = n]
          /\ mission = create_mission(prompt)
          /\ \E p \in Samples(prompt) :
                drawn = [NominalOutcome EXCEPT !.jitS = j[1], !.jitA = j[2],
                                               !.sel = p]
    /\ pc = "synthetic"
    /\ i = 0
    /\ decision = "none"
    /\ evalOutcome = "none"
    /\ designCalls = 0
    /\ runCalls = 0
    /\ launches = 0
    /\ held = FALSE
    /\ faults = 0
    /\ lastStage = "none"
    /\ asked = NotAsked
    /\ designed = NotDesigned
    /\ produced = 0
    /\ evalReached = "none"

SynthesizeMetrics ==
    /\ pc = "synthetic"
    /\ state' = [state EXCEPT !.simulation_metrics =
                     generate_smart_metrics(state.mission_prompt, state.iteration,
                                            drawn.jitS, drawn.jitA)]
    /\ pc' = "metrics"
    /\ UNCHANGED <<env, ctl, max_iterations, mission, i, decision, evalOutcome,
                   designCalls, runCalls, launches, held, faults, lastStage, asked,
                   designed, produced, evalReached, drawn>>
    /\ UNCHANGED par_vars

SynthesizeFeedback ==
    /\ pc = "metrics"
    /\ state' = [state EXCEPT !.designer_feedback =
                     generate_smart_feedback(state.mission_prompt, state.iteration,
                                             drawn.sel)]
    /\ pc' = "feedback"
    /\ UNCHANGED <<env, ctl, max_iterations, mission, i, decision, evalOutcome,
                   designCalls, runCalls, launches, held, faults, lastStage, asked,
                   designed, produced, evalReached, drawn>>
    /\ UNCHANGED par_vars

NextSynthetic == SynthesizeMetrics \/ SynthesizeFeedback

SpecSynthetic == InitSynthetic /\ [][NextSynthetic]_vars

-----------------------------------------------------------------------------
(* Two missions inside simulator_node at the same time. Each mission runs in a
   thread of its own (server.py hands run_workflow_background to
   BackgroundTasks; Streamlit runs each session in its own thread) and all of
   them share the working directory *)

\* iterations a concurrent mission goes through
MaxMissionIteration == 2

\* the missions running side by side
Missions == {1, 2}

\* a path nothing was written to
NoFile == [kind |-> "absent", by |-> 0, of |-> 0, iteration |-> 0]

\* Path(f"output/sim_results_{state.get('iteration', 0)}.json"): the results
\* file is told apart by the iteration only
output_json(iteration) == iteration

\* a mission thread that has not entered simulator_node
NewThread ==
    [pc |-> "design", iteration |-> 0, urdf_path |-> FALSE,
     loaded |-> NoFile, returncode |-> 0,
     metrics |-> [kind |-> "none", by |-> 0, of |-> 0]]

\* the other variables while missions run side by side
SeqIdle ==
    /\ ctl = "none"
    /\ max_iterations = MAX_ITERATIONS
    /\ state = create_initial_state(PROMPT_SURVEY)
    /\ mission = create_mission(PROMPT_SURVEY)
    /\ pc = "concurrent"
    /\ i = 0
    /\ decision = "none"
    /\ evalOutcome = "none"
    /\ designCalls = 0
    /\ runCalls = 0
    /\ launches = 0
    /\ held = FALSE
    /\ faults = 0
    /\ lastStage = "none"
    /\ asked = NotAsked
    /\ designed = NotDesigned
    /\ produced = 0
    /\ evalReached = "none"
    /\ drawn = NotDrawn

InitMissions ==
    /\ SeqIdle
    /\ env \in {[apiKey |-> TRUE, demo |-> d] : d \in BOOLEAN}
    /\ files = [mesh |-> NoFile, urdf |-> NoFile,
                results |-> [n \in 1..MaxMissionIteration |-> NoFile]]
    /\ threads = [m \in Missions |-> NewThread]
    /\ scheduler = <<>>
    /\ workers = <<>>
    /\ handed = <<>>

\* designer_node has stored the next artifact and simulator_node is entered
MissionDesign(m) ==
    /\ threads[m].pc = "design"
    /\ threads[m].iteration < MaxMissionIteration
    /\ threads' = [threads EXCEPT ![m].iteration = @ + 1, ![m].pc = "export"]
    /\ UNCHANGED <<files, scheduler, workers, handed>>
    /\ UNCHANGED seq_vars

\* scene_builder.export_assembly(cad_part, "design")
ExportAssembly(m) ==
    /\ threads[m].pc = "export"
    /\ files' = [files EXCEPT !.mesh = [kind |-> "mesh", by |-> m, of |-> m,
                                        iteration |-> threads[m].iteration]]
    /\ threads' = [threads EXCEPT ![m].pc = "save_urdf"]
    /\ UNCHANGED <<scheduler, workers, handed>>
    /\ UNCHANGED seq_vars

\* scene_builder.save_urdf(urdf, "design.urdf"), and the DEMO_MODE branch
SaveUrdf(m) ==
    /\ threads[m].pc = "save_urdf"
    /\ files' = [files EXCEPT !.urdf = [kind |-> "urdf", by |-> m, of |-> m,
                                        iteration |-> threads[m].iteration]]
    /\ threads' = IF env.demo
                  THEN [threads EXCEPT ![m].urdf_path = TRUE,
                                       ![m].metrics = [kind |-> "synthetic",
                                                       by |-> m, of |-> m],
                                       ![m].pc = "design"]
                  ELSE [threads EXCEPT ![m].urdf_path = TRUE, ![m].pc = "run"]
    /\ UNCHANGED <<scheduler, workers, handed>>
    /\ UNCHANGED seq_vars

\* subprocess.run(cmd): run_simulation.py reads the description document and
\* the mesh it names; when that raises it writes an error document to --output
SubprocessLoad(m) ==
    /\ threads[m].pc = "run"
    /\ \E ok \in BOOLEAN :
          IF ok
          THEN /\ threads' = [threads EXCEPT
                                 ![m].loaded = [files.mesh EXCEPT !.by = files.urdf.by],
                                 ![m].pc = "simulate"]
               /\ files' = files
          ELSE /\ threads' = [threads EXCEPT ![m].returncode = 1,
                                             ![m].pc = "returned"]
               /\ files' = [files EXCEPT
                               !.results[output_json(threads[m].iteration)] =
                                   [kind |-> "error", by |-> m, of |-> m,
                                    iteration |-> threads[m].iteration]]
    /\ UNCHANGED <<scheduler, workers, handed>>
    /\ UNCHANGED seq_vars

\* run_simulation.py writes telemetry and metrics of what it loaded to --output
SubprocessWrite(m) ==
    /\ threads[m].pc = "simulate"
    /\ files' = [files EXCEPT
                    !.results[output_json(threads[m].iteration)] =
                        [kind |-> "success", by |-> m, of |-> threads[m].loaded.of,
                         iteration |-> threads[m].iteration]]
    /\ threads' = [threads EXCEPT ![m].returncode = 0, ![m].pc = "returned"]
    /\ UNCHANGED <<scheduler, workers, handed>>
    /\ UNCHANGED seq_vars

\* simulator_node after subprocess.run returned: the synthetic fallback, or
\* the metrics read from output_json
ReadResults(m) ==
    /\ threads[m].pc = "returned"
    /\ LET f == files.results[output_json(threads[m].iteration)]
       IN threads' =
            [threads EXCEPT
               ![m].metrics =
                   IF threads[m].returncode # 0 \/ f.kind = "absent"
                   THEN [kind |-> "synthetic", by |-> m, of |-> m]
                   ELSE IF f.kind = "success"
                   THEN [kind |-> "file", by |-> f.by, of |-> f.of]
                   ELSE [kind |-> "empty", by |-> f.by, of |-> f.of],
               ![m].pc = "design"]
    /\ UNCHANGED <<files, scheduler, workers, handed>>
    /\ UNCHANGED seq_vars

NextMissions ==
    \E m \in Missions :
        \/ MissionDesign(m)
        \/ ExportAssembly(m)
        \/ SaveUrdf(m)
        \/ SubprocessLoad(m)
        \/ SubprocessWrite(m)
        \/ ReadResults(m)

SpecMissions == InitMissions /\ [][NextMissions]_vars

-----------------------------------------------------------------------------
(* The AeroGrid Scheduler and its Worker threads:
   core/infrastructure/distributed_compute.py *)

\* tasks submitted to the scheduler
MaxTasks == 2

\* Scheduler(num_workers): Worker threads started
NumWorkers == 2

\* report_failure puts a task back while retry_count < 3
MAX_RETRIES == 3

WorkerIds == 1..NumWorkers

\* a queue entry is told apart by the task and by how often it was put back
Entries == (1..MaxTasks) \X (0..MAX_RETRIES)

NoTask == [task_id |-> 0, summable |-> TRUE, retry_count |-> 0]

InitScheduler ==
    /\ SeqIdle
    /\ env = [apiKey |-> FALSE, demo |-> FALSE]
    /\ files = <<>>
    /\ threads = <<>>
    /\ scheduler = [task_queue |-> <<>>, results |-> {}, submitted |-> 0]
    /\ workers = [w \in WorkerIds |->
                    [pc |-> "loop", running |-> TRUE, task |-> NoTask]]
    /\ handed = [e \in Entries |-> 0]

\* Scheduler.submit; summable: the mock function sum(args) works on its
\* arguments
Submit ==
    /\ scheduler.submitted < MaxTasks
    /\ \E ok \in BOOLEAN :
          scheduler' = [scheduler EXCEPT
                          !.submitted = @ + 1,
                          !.task_queue = Append(@, [task_id |-> scheduler.submitted + 1,
                                                    summable |-> ok,
                                                    retry_count |-> 0])]
    /\ UNCHANGED <<files, threads, workers, handed>>
    /\ UNCHANGED seq_vars

\* Worker.run at the head of its loop, into get_task up to  if self.task_queue:
\* an empty queue returns None and the worker sleeps
GetTaskCheck(w) ==
    /\ workers[w].pc = "loop"
    /\ workers' = [workers EXCEPT ![w].pc =
                      IF ~workers[w].running THEN "stopped"
                      ELSE IF scheduler.task_queue # <<>> THEN "pop"
                      ELSE "loop"]
    /\ UNCHANGED <<files, threads, scheduler, handed>>
    /\ UNCHANGED seq_vars

\* self.task_queue.pop(0) and the rest of get_task; pop on an empty list
\* raises IndexError, which nothing in Worker.run catches
GetTaskPop(w) ==
    /\ workers[w].pc = "pop"
    /\ IF scheduler.task_queue = <<>>
       THEN /\ workers' = [workers EXCEPT ![w].pc = "dead"]
            /\ UNCHANGED <<scheduler, handed>>
       ELSE LET task == Head(scheduler.task_queue)
            IN /\ scheduler' = [scheduler EXCEPT !.task_queue = Tail(@)]
               /\ workers' = [workers EXCEPT ![w].pc = "execute", ![w].task = task]
               /\ handed' = [handed EXCEPT ![<<task.task_id, task.retry_count>>] = @ + 1]
    /\ UNCHANGED <<files, threads>>
    /\ UNCHANGED seq_vars

\* Worker._execute_task with report_completion or report_failure
ExecuteTask(w) ==
    /\ workers[w].pc = "execute"
    /\ LET task == workers[w].task
       IN scheduler' =
            IF task.summable
            THEN [scheduler EXCEPT !.results = @ \cup {task.task_id}]
            ELSE IF task.retry_count < MAX_RETRIES
            THEN [scheduler EXCEPT !.task_queue =
                     Append(@, [task EXCEPT !.retry_count = @ + 1])]
            ELSE scheduler
    /\ workers' = [workers EXCEPT ![w].pc = "loop", ![w].task = NoTask]
    /\ UNCHANGED <<files, threads, handed>>
    /\ UNCHANGED seq_vars

\* Scheduler.shutdown
Shutdown ==
    /\ \E w \in WorkerIds : workers[w].running
    /\ workers' = [w \in WorkerIds |-> [workers[w] EXCEPT !.running = FALSE]]
    /\ UNCHANGED <<files, threads, scheduler, handed>>
    /\ UNCHANGED seq_vars

NextScheduler ==
    \/ Submit
    \/ Shutdown
    \/ \E w \in WorkerIds :
          \/ GetTaskCheck(w)
          \/ GetTaskPop(w)
          \/ ExecuteTask(w)

SpecScheduler == InitScheduler /\ [][NextScheduler]_vars

----------------------------------------------------------------------------
(* Properties *)

\* an error text holds "fatal" in some letter case, read off the text itself
MentionsFatal ==
    [e \in ErrorTexts |->
        \E k \in 1..(Len(e) - 4) : Lower(SubSeq(e, k, k + 4)) = FATAL_TAG]

AnyFatal(errors) == \E k \in 1..Len(errors) : MentionsFatal[errors[k]]

\* C1: within one run of the loop the controller makes at most MAX_ITERATIONS
\* DesignStage calls, whatever the collaborators do and whatever max_iterations
\* the mission was submitted with.
C1_AtMostMaxIterations == runCalls <= MAX_ITERATIONS

\* a mission submitted with a larger override that ran all MAX_ITERATIONS steps
C1_Witness ==
    /\ ctl = "server" /\ max_iterations > MAX_ITERATIONS
    /\ runCalls = MAX_ITERATIONS /\ pc = "done"

C3_CapFinishesComplete ==
    (lastStage = "decide" /\ state.iteration >= MAX_ITERATIONS)
        => (decision = "finish" /\ state.status = "complete")

\* the cap applied with a fatal entry in errors
C3_Witness ==
    /\ lastStage = "decide" /\ state.iteration >= MAX_ITERATIONS
    /\ AnyFatal(state.errors) /\ state.status = "complete"

\* C4 as stated: a fatal entry makes DecisionStage return finish with status
\* failed at every iteration value.
C4_FatalAlwaysFailed ==
    (lastStage = "decide" /\ AnyFatal(state.errors))
        => (decision = "finish" /\ state.status = "failed")

\* C4 amended: a fatal entry makes DecisionStage return finish at every
\* iteration value, with status failed when iteration < MAX_ITERATIONS (and
\* complete from MAX_ITERATIONS on, where the cap is tested first).
C4_FatalFailsBelowCap ==
    (lastStage = "decide" /\ AnyFatal(state.errors))
        => /\ decision = "finish"
           /\ state.iteration < MAX_ITERATIONS => state.status = "failed"

\* a fatal entry written with a capital letter stopped the mission as failed
C4_Witness ==
    /\ lastStage = "decide" /\ state.iteration < MAX_ITERATIONS
    /\ \E k \in 1..Len(state.errors) :
          MentionsFatal[state.errors[k]] /\ ~FatalAsWritten[state.errors[k]]
    /\ state.status = "failed" /\ decision = "finish"

\* the reference decision of C5, written from the claim
RefDecision(s) ==
    LET m == s.simulation_metrics
    IN IF s.iteration < 2 THEN "iterate"
       ELSE IF /\ "stability_score" \in DOMAIN m /\ m["stability_score"] >= 85
               /\ "max_acceleration" \in DOMAIN m /\ m["max_acceleration"] <= 1000
               /\ "position_drift" \in DOMAIN m /\ m["position_drift"] <= 50
               /\ s.errors = <<>>
       THEN "finish"
       ELSE "iterate"

\* C5: the heuristic decision is the reference decision: iterate below iteration
\* 2; from 2 on, finish exactly when stability >= 0.85, max_acceleration <= 10,
\* position_drift <= 0.5 and errors is empty; a missing metric gives iterate.
C5_HeuristicIsReference ==
    pc = "decided" => decision = RefDecision(state)

\* finish with every metric exactly on its threshold, at iteration 2
C5_Witness ==
    /\ pc = "decided" /\ decision = "finish" /\ state.iteration = 2
    /\ state.simulation_metrics = GridMetrics("at", "at", "at")

\* C6: DecisionStage returns iterate or finish, and nothing else, in every state
\* and for every outcome of the Decision Collaborator.
C6_DecisionTotal ==
    lastStage = "decide" => decision \in {"iterate", "finish"}

\* the collaborator call raised and the stage still returned a decision
C6_Witness ==
    /\ lastStage = "decide" /\ asked.kind = "invoke_fail"
    /\ decision \in {"iterate", "finish"}

\* C7: once run_workflow_async has returned, the mission has left the active
\* missions with status complete or failed, for every max_iterations given.
C7_ReturnedMissionIsTerminal ==
    (ctl = "server" /\ pc = "done")
        => (~mission.active /\ mission.status \in {"complete", "failed"})

\* C8: no EvaluationStage call ends in an exception.
C8_EvaluationNeverRaises == evalOutcome # "raised"

\* C9: an EvaluationStage call that produced the description document leaves
\* simulation_metrics and feedback non-empty.
C9_MetricsAndFeedbackPresent ==
    (lastStage = "evaluate" /\ evalOutcome = "full")
        => /\ state.simulation_metrics # NoMetrics
           /\ state.designer_feedback.kind # "empty"

\* the status a caller sees: the mission record's on the server, the state's in
\* the Streamlit session
FinalStatus == IF ctl = "server" THEN mission.status ELSE state.status

\* C10: a run that made at least one step and met no fatal error is not cut
\* short: its last step reached DecisionStage, and it ends with status complete.
C10_RecoverableErrorsDoNotAbort ==
    (pc \in {"done", "crashed"} /\ runCalls > 0 /\ ~AnyFatal(state.errors))
        => (lastStage = "decide" /\ FinalStatus = "complete")

\* C11: a mission whose last DecisionStage call saw a fatal entry ends with
\* status failed, in WorkflowState.status and in the status get-status reports,
\* at whatever iteration the entry was seen.
C11_FatalMissionEndsFailed ==
    (ctl = "server" /\ pc = "done" /\ lastStage = "decide"
        /\ AnyFatal(state.errors))
        => (state.status = "failed" /\ mission.status = "failed")

\* C12: with the cargo prompt and no credential set, the first run of the loop
\* ends after exactly two iterations with errors empty, the heuristic decision
\* finish and status complete.
C12_CargoScenarioCompletesAtTwo ==
    (state.mission_prompt = PROMPT_CARGO /\ ~env.apiKey /\ launches = 1
        /\ pc \in {"done", "crashed"})
        => (state.iteration = 2 /\ state.errors = <<>> /\ decision = "finish"
            /\ state.status = "complete")

\* the DecisionStage call of iteration 1 has just run with a fatal entry in errors
SawFatalAtOne ==
    lastStage = "decide" /\ state.iteration = 1 /\ AnyFatal(state.errors)

\* C13: a fatal entry in errors at iteration 1's DecisionStage gives status
\* failed and the decision finish, the controller leaves the loop, and no stage
\* is called after it: no DesignStage, EvaluationStage or DecisionStage call
\* for iteration 2.
C13_FatalAtOneHaltsLoop ==
    /\ [](SawFatalAtOne
            => (state.status = "failed" /\ decision = "finish" /\ pc = "done"))
    /\ [][SawFatalAtOne
            => (state' = state /\ designCalls' = designCalls
                /\ lastStage' = lastStage)]_vars

\* the Design Collaborator call of iteration 1 raised with a fatal message and
\* the mission stopped there
C13_Witness ==
    /\ SawFatalAtOne /\ designed.kind = "invoke_fail"
    /\ state.status = "failed" /\ pc = "done" /\ runCalls = 1

\* C14: as long as every DesignStage call on the state stored an artifact, from
\* the collaborator or from the preset template, design_history is as long as
\* iteration; and a step never changes or removes an entry design_history
\* already holds.
C14_HistoryCountsArtifacts ==
    /\ [](produced = designCalls => Len(state.design_history) = state.iteration)
    /\ [][/\ Len(state'.design_history) >= Len(state.design_history)
          /\ SubSeq(state'.design_history, 1, Len(state.design_history))
                = state.design_history]_vars

\* three calls of the template variant, the later ones with the thicker template
C14_Witness ==
    /\ ctl = "terrain" /\ designed.kind = "template" /\ produced = 3
    /\ state.iteration = 3 /\ Len(state.design_history) = 3
    /\ state.design_history[1] # state.design_history[3]

\* C15 as stated: once a DesignStage call has stored an artifact,
\* design_history is as long as iteration, whatever the other calls did.
C15_HistoryEqualsIteration ==
    produced >= 1 => Len(state.design_history) = state.iteration

\* C15 amended: design_history holds one entry for every DesignStage call that
\* stored an artifact, so it is never longer than iteration, and it is as long
\* as iteration exactly when no call on the state failed without an artifact.
C15_HistoryCountsProducingCalls ==
    /\ Len(state.design_history) = produced
    /\ Len(state.design_history) <= state.iteration
    /\ (Len(state.design_history) = state.iteration) <=> (produced = designCalls)

\* a collaborator call that raised, after a call that had stored an artifact
C15_Witness ==
    /\ lastStage = "design" /\ designed.kind = "invoke_fail"
    /\ produced = 1 /\ designCalls = 2
    /\ Len(state.design_history) = 1 /\ state.iteration = 2

\* C16: a DesignStage call that meets a missing credential or a failing
\* collaborator constructor appends exactly one error, does not call the
\* Design Collaborator, and leaves cad_code, design_history,
\* simulation_metrics and feedback as they were.
C16_EarlyReturnFrame ==
    [][(designCalls' = designCalls + 1
            /\ designed'.kind \in {"nokey", "init_fail"})
        => /\ Len(state'.errors) = Len(state.errors) + 1
           /\ SubSeq(state'.errors, 1, Len(state.errors)) = state.errors
           /\ ~designed'.invoked
           /\ state'.cad_code = state.cad_code
           /\ state'.design_history = state.design_history
           /\ state'.simulation_metrics = state.simulation_metrics
           /\ state'.designer_feedback = state.designer_feedback]_vars

\* the constructor failed in a call made on a state that held an artifact,
\* metrics and feedback
C16_Witness ==
    /\ lastStage = "design" /\ designed.kind = "init_fail"
    /\ state.cad_code = "GoodCode" /\ Len(state.design_history) = 1
    /\ state.simulation_metrics # NoMetrics
    /\ state.designer_feedback.kind # "empty"
    /\ Len(state.errors) = 1

\* C17: after a DesignStage call that returned early on a credential or
\* initialization error, with no fatal entry recorded, the controller goes on
\* to the EvaluationStage call of the same iteration.
C17_EarlyReturnGoesOnToEvaluate ==
    (lastStage = "design" /\ designed.kind \in {"nokey", "init_fail"}
        /\ ~AnyFatal(state.errors))
        => pc = "evaluate"

\* the parser's message holds "fatal" in some letter case
ParserMentionsFatal ==
    [m \in {MSG_SYNTAX, MSG_SYNTAX_NAME} |->
        \E k \in 1..(Len(m) - 4) : Lower(SubSeq(m, k, k + 4)) = FATAL_TAG]

\* C18: when the Design Collaborator returns an artifact that does not pass the
\* syntax validation, the call stores it in cad_code, appends it to
\* design_history, and appends exactly one error, which holds "fatal" exactly
\* when the parser's message does.
C18_InvalidArtifactIsKept ==
    [][(designCalls' = designCalls + 1 /\ designed'.kind = "code"
            /\ designed'.code = "BadSyntax")
        => /\ state'.cad_code = designed'.code
           /\ state'.design_history = Append(state.design_history, designed'.code)
           /\ Len(state'.errors) = Len(state.errors) + 1
           /\ SubSeq(state'.errors, 1, Len(state.errors)) = state.errors
           /\ MentionsFatal[state'.errors[Len(state'.errors)]]
                 <=> ParserMentionsFatal[designed'.msg]]_vars

\* an invalid artifact replaced a valid one and was recorded with one error,
\* not a fatal one
C18_Witness ==
    /\ lastStage = "design" /\ designed.code = "BadSyntax"
    /\ designed.msg = MSG_SYNTAX
    /\ state.cad_code = "BadSyntax"
    /\ state.design_history = <<"GoodCode", "BadSyntax">>
    /\ Len(state.errors) = 1 /\ ~AnyFatal(state.errors)

\* C19: an EvaluationStage call made with no artifact appends one error and
\* returns at the precondition: simulation_metrics, simulation_results,
\* feedback and urdf_path are what they were before the call.
C19_NoArtifactFrame ==
    [][(pc = "evaluate" /\ lastStage' = "evaluate" /\ state.cad_code = "")
        => /\ evalReached' = "precondition"
           /\ Len(state'.errors) = Len(state.errors) + 1
           /\ SubSeq(state'.errors, 1, Len(state.errors)) = state.errors
           /\ state'.simulation_metrics = state.simulation_metrics
           /\ state'.simulation_results = state.simulation_results
           /\ state'.designer_feedback = state.designer_feedback
           /\ state'.urdf_path = state.urdf_path]_vars

\* the collaborator answered iteration 2 with an empty text: the call found no
\* artifact and the results of iteration 1 are still there
C19_Witness ==
    /\ lastStage = "evaluate" /\ evalReached = "precondition"
    /\ state.cad_code = "" /\ state.iteration = 2
    /\ state.simulation_metrics # NoMetrics /\ state.urdf_path # ""
    /\ state.designer_feedback.kind # "empty"
    /\ state.errors = <<ERR_NO_CAD>>

\* C20: an EvaluationStage call on an artifact whose execution fails, or leaves
\* no part, gets past Materialize with the synthetic model and goes on to
\* Export.
C20_MaterializeFallbackGoesOnToExport ==
    (lastStage = "evaluate"
        /\ state.cad_code \in {"NoPartCode", "BadSyntax", "ExitCode"})
        => evalReached \in {"export", "describe", "analyze"}

\* C21: an EvaluationStage call whose Export step fails records one error,
\* leaves simulation_metrics, simulation_results and feedback as they were,
\* and the controller goes on to the DecisionStage call of the iteration.
C21_ExportFailureKeepsStaleAndDecides ==
    [][(pc = "evaluate" /\ lastStage' = "evaluate" /\ evalReached' = "export")
        => /\ Len(state'.errors) = Len(state.errors) + 1
           /\ state'.simulation_metrics = state.simulation_metrics
           /\ state'.simulation_results = state.simulation_results
           /\ state'.designer_feedback = state.designer_feedback
           /\ pc' = "decide"]_vars

\* simulation_metrics is what the synthetic synthesis gives for the prompt and
\* iteration of the state, for some draw of the perturbation
HoldsSynthetic ==
    \E j \in Jitters :
        state.simulation_metrics
            = generate_smart_metrics(state.mission_prompt, state.iteration,
                                     j[1], j[2])

\* the subprocess of the last EvaluationStage call was run and failed
SubprocessFailed ==
    ~env.demo /\ drawn.sim \in {"nonzero", "nofile", "badjson"}

\* C22 as stated: after a Simulate step the synthetic metrics are in
\* simulation_metrics if and only if the primary subprocess failed.
C22_SyntheticIffSubprocessFailed ==
    (lastStage = "evaluate" /\ evalReached = "analyze")
        => (HoldsSynthetic <=> SubprocessFailed)

\* C22 amended: the synthetic metrics are used if and only if DEMO_MODE is on
\* (the subprocess is then not run) or the primary subprocess failed; the
\* failure is not propagated, and the metrics are the synthetic ones for the
\* prompt and iteration of the state.
C22_SyntheticIffDemoOrFailed ==
    (lastStage = "evaluate" /\ evalReached = "analyze")
        => /\ HoldsSynthetic <=> (env.demo \/ SubprocessFailed)
           /\ evalOutcome = "full"
           /\ SubprocessFailed => state.simulation_results = "fallback"

\* the result file could not be read and the synthetic metrics of iteration 2
\* took its place
C22_Witness ==
    /\ lastStage = "evaluate" /\ evalReached = "analyze"
    /\ ~env.demo /\ drawn.sim = "badjson" /\ state.iteration = 2
    /\ state.simulation_metrics
          = generate_smart_metrics(state.mission_prompt, 2, drawn.jitS, drawn.jitA)
    /\ evalOutcome = "full"

\* C23: no EvaluationStage call is left waiting for the simulation subprocess:
\* a subprocess that never exits is cut off by the timeout and the call
\* returns with the synthetic metrics.
C23_SubprocessTimeoutReturns ==
    (lastStage = "evaluate" /\ drawn.sim = "hang" /\ evalReached = "simulate")
        => (evalOutcome = "full" /\ HoldsSynthetic)

\* a prompt holds a cue word in some letter case, read off the prompt itself
HasCue(p, w) ==
    \E k \in 1..(Len(p) - Len(w) + 1) : Lower(SubSeq(p, k, k + Len(w) - 1)) = w

\* the prompt-keyword class of the metric formulas: a speed/racing cue, else a
\* heavy/cargo cue, else none
CueClass ==
    [p \in SynthPrompts |->
        IF HasCue(p, W_RACING) \/ HasCue(p, W_SPEED) THEN "racing"
        ELSE IF HasCue(p, W_HEAVY) \/ HasCue(p, W_CARGO) THEN "heavy"
        ELSE "default"]

Synthesized == pc \in {"metrics", "feedback"}

\* C24: with the perturbation at zero the synthetic stability is
\* min(base_stability + 0.03 * iteration, 0.99), base_stability being 0.75 for
\* a racing prompt, 0.95 for a heavy one and 0.85 otherwise.
C24_StabilityFormula ==
    (Synthesized /\ drawn.jitS = 0)
        => LET c == CueClass[state.mission_prompt]
               base == IF c = "racing" THEN 75 ELSE IF c = "heavy" THEN 95 ELSE 85
               v == base + 3 * state.iteration
           IN state.simulation_metrics["stability_score"]
                 = (IF v < 99 THEN v ELSE 99)

\* C25: the synthetic max_acceleration is base_accel, plus 2.0 * iteration for a
\* racing prompt, base_accel being 35.0 (racing), 8.0 (heavy) and 15.0
\* otherwise, whatever the random draws are.
C25_AccelerationFormula ==
    Synthesized
        => LET c == CueClass[state.mission_prompt]
           IN state.simulation_metrics["max_acceleration"]
                 = (IF c = "racing" THEN 3500 + 200 * state.iteration
                    ELSE IF c = "heavy" THEN 800 ELSE 1500)

\* C26: the synthetic energy_efficiency is min(base_energy + 0.02 * iteration,
\* 0.98) for every prompt class (base_energy 0.6 racing, 0.85 heavy, 0.7
\* otherwise).
C26_EnergyFormula ==
    Synthesized
        => LET c == CueClass[state.mission_prompt]
               base == IF c = "racing" THEN 60 ELSE IF c = "heavy" THEN 85 ELSE 70
               v == base + 2 * state.iteration
           IN state.simulation_metrics["energy_efficiency"]
                 = (IF v < 98 THEN v ELSE 98)

\* C27: the synthetic results are functions of prompt and iteration alone: any
\* other call with the same prompt and iteration returns the metrics and the
\* feedback this one returned.
C27_SyntheticIsDeterministic ==
    pc = "feedback"
        => /\ \A j \in Jitters :
                 generate_smart_metrics(state.mission_prompt, state.iteration,
                                        j[1], j[2])
                    = state.simulation_metrics
           /\ \A p \in Samples(state.mission_prompt) :
                 generate_smart_feedback(state.mission_prompt, state.iteration, p)
                    = state.designer_feedback

\* the answers of the Decision Collaborator, trimmed and lower-cased
TrimmedLower ==
    [t \in {TXT_ITERATE, TXT_FINISH, TXT_FINISH_RAW, TXT_OTHER} |-> Lower(Strip(t))]

\* C28: a DecisionStage call that gets to the Decision Collaborator returns the
\* collaborator's answer exactly when the answer, trimmed and lower-cased, is
\* "iterate" or "finish"; for every other answer and for every failure of the
\* collaborator it returns the heuristic decision on the same state.
C28_AnswerOrHeuristic ==
    [][(pc = "decide" /\ lastStage' = "decide" /\ asked'.kind # "unused")
        => LET accepted == /\ asked'.kind = "answer"
                           /\ TrimmedLower[asked'.text] \in {TXT_ITERATE, TXT_FINISH}
           IN decision' = IF ~accepted THEN simple_heuristic_decision(state)
                          ELSE IF TrimmedLower[asked'.text] = TXT_ITERATE
                          THEN "iterate"
                          ELSE "finish"]_vars

\* the answer " Finish\n" was taken at iteration 1, where the heuristic says
\* iterate
C28_Witness ==
    /\ lastStage = "decide" /\ asked.kind = "answer"
    /\ asked.text = TXT_FINISH_RAW
    /\ state.iteration = 1 /\ decision = "finish"
    /\ simple_heuristic_decision(state) = "iterate"

\* C29: within one run of a controller the stage calls come as Design,
\* Evaluate, Decide, Design, ...: the run's first stage call is a DesignStage
\* call, an EvaluationStage call follows a DesignStage call, a DecisionStage
\* call follows an EvaluationStage call, every later DesignStage call follows
\* a DecisionStage call that returned iterate, each DesignStage call raises
\* iteration by one and no other stage call changes it.
C29_StagesInOrder ==
    [][/\ (designCalls' = designCalls + 1)
            => /\ \/ lastStage = "none"
                  \/ (lastStage = "decide" /\ decision = "iterate")
               /\ state'.iteration = state.iteration + 1
       /\ (pc = "evaluate" /\ lastStage' = "evaluate")
            => (lastStage = "design" /\ state'.iteration = state.iteration)
       /\ (pc = "decide" /\ lastStage' = "decide")
            => (lastStage = "evaluate" /\ state'.iteration = state.iteration)
       /\ (lastStage' = "none" /\ lastStage # "none")
            => (launches' = launches + 1 /\ pc' = "design")]_vars

\* a second iteration of one run has begun after a DecisionStage call that
\* returned iterate
C29_Witness ==
    /\ lastStage = "design"
    /\ decision = "iterate"
    /\ runCalls = 2
    /\ state.iteration = 2

\* C30: no DesignStage, EvaluationStage or DecisionStage call is made on a
\* WorkflowState whose status is complete or failed.
C30_NoStageAfterTerminal ==
    [][state.status \in {"complete", "failed"}
        => ~ \/ designCalls' = designCalls + 1
             \/ (pc = "evaluate" /\ lastStage' = "evaluate")
             \/ (pc = "decide" /\ lastStage' = "decide")]_vars

\* C31: whenever the server controller has ended a mission after a
\* DecisionStage call (finish returned, or the loop used up under the
\* max-iteration override), the mission's WorkflowState has status complete
\* or failed.
C31_EndedMissionHasTerminalStatus ==
    (/\ ctl = "server"
     /\ pc = "done"
     /\ lastStage = "decide"
     /\ decision \in {"finish", "iterate"})
        => state.status \in {"complete", "failed"}

\* C32: with two missions running side by side, the metrics a mission stores
\* were written by its own subprocess from its own mesh and description
\* document, and when a mission hands its description document to the
\* subprocess the document and the mesh at that path are its own.
C32_MissionsKeepApart ==
    \A m \in Missions :
        /\ threads[m].metrics.kind \in {"file", "empty"}
              => (threads[m].metrics.by = m /\ threads[m].metrics.of = m)
        /\ threads[m].pc = "run"
              => (files.urdf.by = m /\ files.mesh.by = m)

\* C33: errors is append-only on one WorkflowState: over every stage call and
\* every controller step that keeps the WorkflowState, the errors sequence
\* before the step is a prefix of the errors sequence after it.
C33_ErrorsAppendOnly ==
    [][(launches' = launches \/ held)
         => /\ Len(state.errors) <= Len(state'.errors)
            /\ SubSeq(state'.errors, 1, Len(state.errors)) = state.errors]_vars

\* a later stage call has appended to errors that an earlier one left
C33_Witness ==
    /\ Len(state.errors) >= 2
    /\ state.iteration >= 2
    /\ lastStage = "design"

C36_FeedbackClassIsMetricsClass ==
    (pc = "feedback" /\ drawn.sel[1] # 1)
        => LET accel == state.simulation_metrics["max_acceleration"] - drawn.jitA
               last == state.designer_feedback.sel[1]
           IN /\ (last[1] = "racing") <=> (accel >= 3500)
              /\ (last[1] = "heavy") <=> (accel = 800)

\* C37: a designer_node call that reaches the Design Collaborator sends the
\* from-scratch request exactly when iteration, after the increment, is 1; on
\* every later iteration the request holds the mission prompt, the latest
\* feedback, the prior artifact and the prior errors.
C37_RequestStrategyAndContext ==
    [][(designCalls' = designCalls + 1 /\ designed'.invoked)
         => /\ (designed'.request.strategy = "scratch") <=> (state'.iteration = 1)
            /\ state'.iteration > 1
                 => {"mission_prompt", "designer_feedback", "cad_code", "errors"}
                       \subseteq designed'.request.fields]_vars

\* occurrences of an entry in a list of errors
Occurrences(e, errors) == Cardinality({k \in 1..Len(errors) : errors[k] = e})

\* C38: once a stage has been called in the server controller, every entry of
\* the WorkflowState's errors is in the errors of the mission record, the list
\* get-status reports, exactly as many times as it is in the state.
C38_ReportedErrorsMatchState ==
    (ctl = "server" /\ lastStage # "none")
        => \A k \in 1..Len(state.errors) :
              Occurrences(state.errors[k], mission.errors)
                 = Occurrences(state.errors[k], state.errors)

\* C39: no WorkflowState has status complete before its iteration reaches
\* MIN_ITERATIONS, and a DecisionStage call at an iteration below
\* MIN_ITERATIONS returns finish only when errors holds a "fatal" entry.
C39_NoCompleteBeforeMinIterations ==
    /\ state.status = "complete" => state.iteration >= MIN_ITERATIONS
    /\ (lastStage = "decide" /\ decision = "finish"
            /\ state.iteration < MIN_ITERATIONS)
          => AnyFatal(state.errors)

\* C40: with several Worker threads in get_task at once, no queue entry is
\* handed out more than once and no worker dies in get_task on an empty queue.
C40_GetTaskIsSafe ==
    /\ \A e \in Entries : handed[e] <= 1
    /\ \A w \in WorkerIds : workers[w].pc # "dead"

====
